---- MODULE Spec2Model ----
(***************************************************************************)
(* A model of amf_check_writer: the facet naming scheme (AmfFile), the     *)
(* source discovery, loading, grouping and bulk writing done by            *)
(* SpreadsheetHandler (write_yaml / write_cvs / get_all_cvs /              *)
(* _write_output_files).  Strings are Python strings; paths are strings    *)
(* handled the way os.path handles them.                                   *)
(***************************************************************************)
EXTENDS Integers, Sequences, FiniteSets, TLC

\* ------------------------------------------------------------------ bounds
\* The largest number of files the modelled spreadsheet tree holds.
MaxFiles == 3
\* The largest number of facets of the sequences the naming scheme is tried on.
MaxFacets == 2
\* The latest clock reading at which a decorated API call is still started.
MaxClock == 130

\* ------------------------------------------------------- string primitives
StartsWith(s, p) == Len(s) >= Len(p) /\ SubSeq(s, 1, Len(p)) = p

EndsWith(s, p) == Len(s) >= Len(p) /\ SubSeq(s, Len(s) - Len(p) + 1, Len(s)) = p

DropLast(s, n) == SubSeq(s, 1, Len(s) - n)

CharAt(s, i) == SubSeq(s, i, i)

Contains(s, c) == \E i \in 1..Len(s) : CharAt(s, i) = c

UpperAlphabet == "ABCDEFGHIJKLMNOPQRSTUVWXYZ"

LowerAlphabet == "abcdefghijklmnopqrstuvwxyz"

\* str.lower() on one character
LowerChar(c) ==
    IF Contains(UpperAlphabet, c)
    THEN CharAt(LowerAlphabet, CHOOSE i \in 1..Len(UpperAlphabet) : CharAt(UpperAlphabet, i) = c)
    ELSE c

RECURSIVE Lower(_)
\* str.lower()
Lower(s) == IF s = "" THEN "" ELSE LowerChar(CharAt(s, 1)) \o Lower(SubSeq(s, 2, Len(s)))

\* The position of the last "/" of s, 0 when there is none
LastSlash(s) ==
    LET at == {i \in 1..Len(s) : CharAt(s, i) = "/"}
    IN  IF at = {} THEN 0 ELSE CHOOSE i \in at : \A j \in at : j <= i

\* ------------------------------------------------------------------ os.path
\* os.path.join(a, b) on POSIX: an absolute b discards a
PathJoin(a, b) ==
    IF StartsWith(b, "/") THEN b
    ELSE IF a = "" \/ EndsWith(a, "/") THEN a \o b
    ELSE a \o "/" \o b

\* os.path.relpath(path, start) for a path lying under start
RelPath(path, start) ==
    IF StartsWith(path, start \o "/")
    THEN SubSeq(path, Len(start) + 2, Len(path))
    ELSE path

\* --------------------------------------------------------- base_file.AmfFile
facet_separator == "_"

RECURSIVE StrJoin(_, _)
\* sep.join(parts)
StrJoin(sep, parts) ==
    IF Len(parts) = 0 THEN ""
    ELSE IF Len(parts) = 1 THEN parts[1]
    ELSE parts[1] \o sep \o StrJoin(sep, Tail(parts))

\* mutant of namespace: the facets are concatenated without the separator
namespace_noSeparator(facets) == StrJoin("", facets)

\* AmfFile.__init__: self.namespace
namespace(facets) == StrJoin(facet_separator, facets)

\* AmfFile.get_filename
get_filename(facets, ext) == "AMF" \o facet_separator \o namespace(facets) \o "." \o ext

\* ------------------------------------------------ spreadsheet_handler consts
DeploymentModes == <<"Land", "Sea", "Air">>

SPREADSHEET_NAMES ==
    [products_dir           |-> "Product Definition Spreadsheets",
     common_spreadsheet     |-> "Common.xlsx",
     vocabs_spreadsheet     |-> "Vocabularies.xlsx",
     global_attrs_worksheet |-> "Global Attributes.tsv",
     instruments_worksheet  |-> "Instrument Name & Descriptors.tsv",
     data_products_worksheet |-> "Data Products.tsv",
     platforms_worksheet    |-> "Platforms.tsv",
     scientists_worksheet   |-> "Creators.tsv"]

\* VAR_DIM_FILENAME_MAPPING, in the order its items are iterated
VAR_DIM_FILENAME_MAPPING ==
    << [prefix |-> "Variables",  name |-> "variable",  cls |-> "VariablesCV"],
       [prefix |-> "Dimensions", name |-> "dimension", cls |-> "DimensionsCV"] >>

VarDimEntry(prefix) ==
    CHOOSE e \in {VAR_DIM_FILENAME_MAPPING[i] : i \in 1..Len(VAR_DIM_FILENAME_MAPPING)} :
        e.prefix = prefix

\* CVParseInfo(path, cls, facets)
CVParseInfo(path, cls, facets) == [path |-> path, cls |-> cls, facets |-> facets]

\* The characters of the regex class [a-zA-Z0-9-]
NameAlphabet == UpperAlphabet \o LowerAlphabet \o "0123456789-"

IsName(s) == Len(s) > 0 /\ \A i \in 1..Len(s) : Contains(NameAlphabet, CharAt(s, i))

SheetTail(type) == "/" \o type \o " - Specific.tsv"

\* sheet_regex.search(path): the match of
\*   (?P<name>[a-zA-Z0-9-]+)/(?P=name)\.xlsx/(?P<type>Variables|Dimensions) - Specific.tsv$
\* The tail is anchored at the end of the path; the back-reference is preceded
\* by "/" and holds no "/", so it is the whole basename of the .xlsx component,
\* and the first group is any suffix of the directory above that equals it.
sheet_regex_search(path) ==
    LET types == {t \in {"Variables", "Dimensions"} : EndsWith(path, ".xlsx" \o SheetTail(t))}
    IN  IF types = {} THEN [matched |-> FALSE, name |-> "", type |-> ""]
        ELSE LET type == CHOOSE t \in types : TRUE
                 book == DropLast(path, Len(".xlsx" \o SheetTail(type)))
                 cut  == LastSlash(book)
                 name == SubSeq(book, cut + 1, Len(book))
                 dir  == SubSeq(book, 1, cut - 1)
             IN  IF cut > 0 /\ IsName(name) /\ EndsWith(dir, name)
                 THEN [matched |-> TRUE, name |-> name, type |-> type]
                 ELSE [matched |-> FALSE, name |-> "", type |-> ""]

\* ------------------------------------------------- classes outside this file
\* cls.__bases__ of the CV classes handed to get_all_cvs: the variable and
\* dimension vocabularies are also YAML checks, the static vocabularies are not.
Bases(cls) ==
    IF cls \in {"VariablesCV", "DimensionsCV"} THEN {"BaseCV", "YamlCheck"} ELSE {"BaseCV"}

\* What constructing cls(tsv_file, facets) can do with a file's content: return
\* the record, raise CVParseError, or (dimensions only) raise
\* DimensionsSheetNoRowsError.
ParseOutcomes(cls) ==
    IF cls = "DimensionsCV" THEN {"ok", "CVParseError", "DimensionsSheetNoRowsError"}
    ELSE {"ok", "CVParseError"}

\* ------------------------------------------------------------- environment
PDS == SPREADSHEET_NAMES.products_dir

\* The files a modelled spreadsheet tree may hold, relative to its root, in
\* one directory-listing order
Listing ==
    << PDS \o "/radar/radar.xlsx/Variables - Specific.tsv",
       PDS \o "/radar/radar.xlsx/Dimensions - Specific.tsv",
       PDS \o "/v2/radar/radar.xlsx/Variables - Specific.tsv",
       PDS \o "/common/common.xlsx/Variables - Specific.tsv",
       PDS \o "/sonde/sonde.xlsx/Variables - Specific.tsv",
       PDS \o "/radar/notes.txt",
       "Common.xlsx/Variables - Land.tsv",
       "Common.xlsx/Dimensions - Land.tsv",
       "Common.xlsx/Global Attributes.tsv",
       "Vocabularies.xlsx/Platforms.tsv" >>

CandidateFiles == {Listing[k] : k \in 1..Len(Listing)}

\* The directories SpreadsheetHandler is constructed on: absolute and relative
Roots == {"/srv/amf", "data"}

Trees == {t \in SUBSET CandidateFiles : Cardinality(t) <= MaxFiles}

VARIABLES
    root,            \* SpreadsheetHandler.path
    tree,            \* the files that exist, relative to root
    base_class,      \* get_all_cvs' base_class: "YamlCheck" (write_yaml) or "None" (write_cvs)
    pc,              \* where the run is
    cv_parse_infos,  \* get_all_cvs: the discovered CVParseInfo list
    idx,             \* the position of the loop in progress
    cvs,             \* the records get_all_cvs has yielded
    outcomes,        \* get_all_cvs: what each pass of the loading loop came to, in order
    warnings,        \* the warnings printed so far, in order
    global_checks,   \* write_yaml: global_checks
    all_checks,      \* the collection handed to _write_output_files
    disk,            \* output directory: filename -> index of the record it holds, 0 if cut short
    count,           \* _write_output_files: count
    printed,         \* the "<count> files written" reports
    exc,             \* the exception that ended the run, "" if none
    API_CALL_TIMES,  \* download_from_drive.API_CALL_TIMES
    clock,           \* time.time(), in whole seconds
    api_exc,         \* the exception a decorated call's wrapper raised, "" if none
    invoked          \* how many times the wrapped function has been invoked

vars == <<root, tree, base_class, pc, cv_parse_infos, idx, cvs, outcomes, warnings,
          global_checks, all_checks, disk, count, printed, exc,
          API_CALL_TIMES, clock, api_exc, invoked>>

\* the state of the rate limiter, which the spreadsheet handler never touches
ApiVars == <<API_CALL_TIMES, clock, api_exc, invoked>>

\* ----------------------------------------------------------------- records
\* An AmfFile object: its class, its facets, the file it was parsed from and,
\* for a wrapper, its child checks.
Record(cls, facets, src, children) ==
    [cls |-> cls, facets |-> facets, src |-> src, children |-> children]

Warn(kind, path) == [kind |-> kind, path |-> path]

\* os.path.isfile(path)
isfile(path) == \E f \in tree : PathJoin(root, f) = path

\* ---------------------------------------------------------------- discovery
\* get_all_cvs.static_path
static_path(name) == PathJoin(SPREADSHEET_NAMES.vocabs_spreadsheet, SPREADSHEET_NAMES[name])

\* get_all_cvs: the four static CVParseInfo entries
StaticParseInfos ==
    << CVParseInfo(static_path("instruments_worksheet"), "InstrumentsCV", <<"instrument">>),
       CVParseInfo(static_path("data_products_worksheet"), "ProductsCV", <<"product">>),
       CVParseInfo(static_path("platforms_worksheet"), "PlatformsCV", <<"platform">>),
       CVParseInfo(static_path("scientists_worksheet"), "ScientistsCV", <<"scientist">>) >>

\* _get_common_var_dim_parse_info: one entry of the double loop
CommonParseInfo(self_path, obj, dep_m) ==
    LET common_dir == PathJoin(self_path, SPREADSHEET_NAMES.common_spreadsheet)
        filename   == obj.prefix \o " - " \o dep_m \o ".tsv"
    IN  CVParseInfo(PathJoin(common_dir, filename), obj.cls,
                    <<"product", "common", obj.name, Lower(dep_m)>>)

\* _get_common_var_dim_parse_info
get_common_var_dim_parse_info(self_path) ==
    LET n == Len(DeploymentModes)
    IN  [k \in 1..(Len(VAR_DIM_FILENAME_MAPPING) * n) |->
            CommonParseInfo(self_path,
                            VAR_DIM_FILENAME_MAPPING[((k - 1) \div n) + 1],
                            DeploymentModes[((k - 1) % n) + 1])]

\* The files os.walk(prods_dir) visits, as the paths os.path.join(dirpath, fname)
WalkedPaths ==
    LET prods_dir == PathJoin(root, PDS)
    IN  {PathJoin(root, f) : f \in {g \in tree : StartsWith(PathJoin(root, g), prods_dir \o "/")}}

\* The orders in which os.walk may hand over those files. The listing order of a
\* directory is the file system's choice: the model tries one order and its
\* reverse, so that every two files are met in both orders.
WalkOrders ==
    LET all == [k \in 1..Len(Listing) |-> PathJoin(root, Listing[k])]
        fwd == SelectSeq(all, LAMBDA p : p \in WalkedPaths)
    IN  {fwd, [k \in 1..Len(fwd) |-> fwd[Len(fwd) + 1 - k]]}

\* _get_per_product_parse_info: the entry of one matching path
PerProductParseInfo(self_path, path) ==
    LET match == sheet_regex_search(path)
        obj   == VarDimEntry(match.type)
    IN  CVParseInfo(RelPath(path, self_path), obj.cls, <<"product", match.name, obj.name>>)

RECURSIVE SelectSeq2(_, _)
\* the subsequence of s of the paths the regex matches (or does not match)
SelectSeq2(s, wanted) ==
    IF Len(s) = 0 THEN <<>>
    ELSE (IF sheet_regex_search(s[1]).matched = wanted THEN <<s[1]>> ELSE <<>>)
         \o SelectSeq2(Tail(s), wanted)

\* _get_per_product_parse_info over the walk order `walk`
get_per_product_parse_info(self_path, walk) ==
    LET hits == SelectSeq2(walk, TRUE)
    IN  [k \in 1..Len(hits) |-> PerProductParseInfo(self_path, hits[k])]

\* the "No match for" warnings of the walk
NoMatchWarnings(walk) ==
    LET miss == SelectSeq2(walk, FALSE)
    IN  [k \in 1..Len(miss) |-> Warn("no_match", miss[k])]

\* get_all_cvs, up to its loading loop (lines 158-192)
Discover ==
    /\ pc = "discover"
    /\ \E walk \in WalkOrders :
         LET per_product_cvs == get_per_product_parse_info(root, walk)
         IN  /\ cv_parse_infos' = StaticParseInfos \o get_common_var_dim_parse_info(root)
                                  \o per_product_cvs
             /\ warnings' = warnings \o NoMatchWarnings(walk)
                  \o (IF Len(per_product_cvs) = 0
                      THEN <<Warn("no_products", PathJoin(root, PDS))>> ELSE <<>>)
    /\ idx' = 1
    /\ pc' = "load"
    /\ UNCHANGED <<ApiVars, root, tree, base_class, cvs, outcomes, global_checks, all_checks, disk,
                   count, printed, exc>>

\* ------------------------------------------------------------------ loading
\* get_all_cvs: full_path of the entry the loop is at
full_path(info) == PathJoin(root, info.path)

Skipped(info) == base_class # "None" /\ base_class \notin Bases(info.cls)

AtEntry == pc = "load" /\ idx <= Len(cv_parse_infos)

LoadKeep == UNCHANGED <<ApiVars, root, tree, base_class, pc, cv_parse_infos, global_checks,
                        all_checks, disk, count, printed, exc>>

\* base_class given and not among cls.__bases__: continue
LoadSkipClass ==
    /\ AtEntry
    /\ Skipped(cv_parse_infos[idx])
    /\ idx' = idx + 1
    /\ outcomes' = Append(outcomes, "skipped")
    /\ UNCHANGED <<cvs, warnings>>
    /\ LoadKeep

\* not self._isfile(full_path): the warning of _isfile, continue
LoadMissing ==
    /\ AtEntry
    /\ ~Skipped(cv_parse_infos[idx])
    /\ ~isfile(full_path(cv_parse_infos[idx]))
    /\ warnings' = Append(warnings, Warn("expected_file", full_path(cv_parse_infos[idx])))
    /\ idx' = idx + 1
    /\ outcomes' = Append(outcomes, "missing")
    /\ UNCHANGED cvs
    /\ LoadKeep

\* mutant of LoadResult: the except clauses in the wrong order, so that
\* DimensionsSheetNoRowsError is handled as a CVParseError
LoadResult_noRowsWarns(info, outcome) ==
    [cvs |-> IF outcome = "ok"
             THEN Append(cvs, Record(info.cls, info.facets, full_path(info), <<>>))
             ELSE cvs,
     warnings |-> IF outcome \in {"CVParseError", "DimensionsSheetNoRowsError"}
                  THEN Append(warnings, Warn("parse_failed", full_path(info)))
                  ELSE warnings]

\* What one pass of the try block does with the outcome of cls(tsv_file, facets)
LoadResult(info, outcome) ==
    [cvs |-> IF outcome = "ok"
             THEN Append(cvs, Record(info.cls, info.facets, full_path(info), <<>>))
             ELSE cvs,
     warnings |-> IF outcome = "CVParseError"
                  THEN Append(warnings, Warn("parse_failed", full_path(info)))
                  ELSE warnings]

LoadParsed(outcome) ==
    /\ ~Skipped(cv_parse_infos[idx])
    /\ isfile(full_path(cv_parse_infos[idx]))
    /\ outcome \in ParseOutcomes(cv_parse_infos[idx].cls)
    /\ cvs' = LoadResult(cv_parse_infos[idx], outcome).cvs
    /\ warnings' = LoadResult(cv_parse_infos[idx], outcome).warnings
    /\ outcomes' = Append(outcomes, outcome)
    /\ idx' = idx + 1
    /\ LoadKeep

\* yield cls(tsv_file, facets)
LoadOk == AtEntry /\ LoadParsed("ok")

\* except DimensionsSheetNoRowsError: pass
LoadNoRows == AtEntry /\ LoadParsed("DimensionsSheetNoRowsError")

\* except CVParseError: warning
LoadParseError == AtEntry /\ LoadParsed("CVParseError")

\* the generator is exhausted: write_cvs goes on to write the CVs as JSON,
\* write_yaml to its global checks
LoadDone ==
    /\ pc = "load"
    /\ idx > Len(cv_parse_infos)
    /\ IF base_class = "None"
       THEN /\ all_checks' = cvs
            /\ pc' = "write"
            /\ idx' = 1
       ELSE /\ pc' = "globals"
            /\ UNCHANGED <<all_checks, idx>>
    /\ UNCHANGED <<ApiVars, root, tree, base_class, cv_parse_infos, cvs, outcomes, warnings,
                   global_checks, disk, count, printed, exc>>

\* ------------------------------------------------------------- write_yaml
\* write_yaml: global_attrs_path
global_attrs_path ==
    PathJoin(PathJoin(root, SPREADSHEET_NAMES.common_spreadsheet),
             SPREADSHEET_NAMES.global_attrs_worksheet)

\* write_yaml: the two checks global_checks starts with
FixedGlobalChecks ==
    << Record("FileInfoCheck", <<"file_info">>, "", <<>>),
       Record("FileStructureCheck", <<"file_structure">>, "", <<>>) >>

GlobalKeep == UNCHANGED <<ApiVars, root, tree, base_class, cv_parse_infos, idx, cvs, outcomes, all_checks,
                          disk, count, printed>>

\* self._isfile(global_attrs_path) is false: its warning, two global checks
GlobalAttrsMissing ==
    /\ pc = "globals"
    /\ ~isfile(global_attrs_path)
    /\ warnings' = Append(warnings, Warn("expected_file", global_attrs_path))
    /\ global_checks' = FixedGlobalChecks
    /\ pc' = "group"
    /\ UNCHANGED exc
    /\ GlobalKeep

\* GlobalAttrCheck(tsv_file, ["global_attrs"]) returns
GlobalAttrsOk ==
    /\ pc = "globals"
    /\ isfile(global_attrs_path)
    /\ global_checks' = Append(FixedGlobalChecks,
                               Record("GlobalAttrCheck", <<"global_attrs">>, global_attrs_path, <<>>))
    /\ pc' = "group"
    /\ UNCHANGED <<warnings, exc>>
    /\ GlobalKeep

\* GlobalAttrCheck(tsv_file, ["global_attrs"]) raises CVParseError: nothing in
\* write_yaml catches it
GlobalAttrsParseError ==
    /\ pc = "globals"
    /\ isfile(global_attrs_path)
    /\ exc' = "CVParseError"
    /\ pc' = "aborted"
    /\ UNCHANGED <<warnings, global_checks>>
    /\ GlobalKeep

\* len(cv.facets) > 2 and cv.facets[0] == "product"
IsProductScoped(cv) == Len(cv.facets) > 2 /\ cv.facets[1] = "product"

\* mutant of product_cvs: the records are not keyed by product name
product_cvs_anyProduct(records, prod_name) ==
    SelectSeq(records, LAMBDA cv : IsProductScoped(cv) /\ cv.facets[2] # "common")

\* the records the grouping loop files under product_cvs[prod_name]
product_cvs(records, prod_name) ==
    SelectSeq(records, LAMBDA cv : IsProductScoped(cv) /\ cv.facets[2] # "common"
                                   /\ cv.facets[2] = prod_name)

\* mutant of common_cvs_get: the common records are not keyed by deployment mode
common_cvs_get_anymode(records, dep_m) ==
    SelectSeq(records, LAMBDA cv : IsProductScoped(cv) /\ cv.facets[2] = "common")

\* common_cvs.get(dep_m, []): the records filed under common_cvs[dep_m]
common_cvs_get(records, dep_m) ==
    SelectSeq(records, LAMBDA cv : IsProductScoped(cv) /\ cv.facets[2] = "common"
                                   /\ cv.facets[Len(cv.facets)] = dep_m)

RECURSIVE ProductKeys_withCommon(_, _)
\* mutant of ProductKeys: "common" is grouped like any other product name
ProductKeys_withCommon(records, seen) ==
    IF Len(records) = 0 THEN <<>>
    ELSE LET cv  == records[1]
             new == IsProductScoped(cv) /\ cv.facets[2] \notin seen
         IN  (IF new THEN <<cv.facets[2]>> ELSE <<>>)
             \o ProductKeys_withCommon(Tail(records),
                                       IF new THEN seen \cup {cv.facets[2]} ELSE seen)

RECURSIVE ProductKeys(_, _)
\* the keys of product_cvs, in the order the grouping loop inserts them
ProductKeys(records, seen) ==
    IF Len(records) = 0 THEN <<>>
    ELSE LET cv  == records[1]
             new == IsProductScoped(cv) /\ cv.facets[2] # "common" /\ cv.facets[2] \notin seen
         IN  (IF new THEN <<cv.facets[2]>> ELSE <<>>)
             \o ProductKeys(Tail(records), IF new THEN seen \cup {cv.facets[2]} ELSE seen)

\* WrapperYamlCheck(child_checks, facets) of one product and one mode
WrapperFor(records, globals, prod_name, mode) ==
    LET dep_m == Lower(mode)
    IN  Record("WrapperYamlCheck", <<"product", prod_name, dep_m>>, "",
               globals \o product_cvs(records, prod_name) \o common_cvs_get(records, dep_m))

\* the wrappers the double loop appends, product by product, mode by mode
Wrappers(records, globals) ==
    LET keys == ProductKeys(records, {})
        n    == Len(DeploymentModes)
    IN  [k \in 1..(Len(keys) * n) |->
            WrapperFor(records, globals, keys[((k - 1) \div n) + 1],
                       DeploymentModes[((k - 1) % n) + 1])]

\* mutant of AllChecks: the leaf records are referenced by the wrappers but not
\* emitted themselves
AllChecks_noLeaves(records, globals) == globals \o Wrappers(records, globals)

\* write_yaml: all_checks as handed to _write_output_files
AllChecks(records, globals) == records \o globals \o Wrappers(records, globals)

\* write_yaml lines 100-128: grouping, wrapper synthesis, hand-over to the writer
GroupAndWrap ==
    /\ pc = "group"
    /\ all_checks' = AllChecks(cvs, global_checks)
    /\ idx' = 1
    /\ pc' = "write"
    /\ UNCHANGED <<ApiVars, root, tree, base_class, cv_parse_infos, cvs, outcomes, warnings,
                   global_checks, disk, count, printed, exc>>

\* ---------------------------------------------------- _write_output_files
\* the ext argument: "json" from write_cvs, "yml" from write_yaml
Ext == IF base_class = "None" THEN "json" ELSE "yml"

\* f.get_filename(ext) of the record the loop is at
fname(i) == get_filename(all_checks[i].facets, Ext)

AtRecord == pc = "write" /\ idx <= Len(all_checks)

WriteKeep == UNCHANGED <<ApiVars, root, tree, base_class, cv_parse_infos, cvs, outcomes, warnings,
                         global_checks, all_checks, printed>>

\* the file fname(i) after open(outpath, "w") and out_file.write(callback(f))
Written(d, name, i) == (name :> i) @@ d

\* one pass of the loop: the file is opened, written and counted
WriteFile ==
    /\ AtRecord
    /\ disk' = Written(disk, fname(idx), idx)
    /\ count' = count + 1
    /\ idx' = idx + 1
    /\ UNCHANGED <<pc, exc>>
    /\ WriteKeep

\* mutant of WriteOpenFails: the failure is swallowed and the loop goes on
WriteOpenFails_swallowed ==
    /\ pc = "write" /\ idx <= Len(all_checks)
    /\ idx' = idx + 1
    /\ UNCHANGED <<pc, exc, disk, count>>
    /\ UNCHANGED <<ApiVars, root, tree, base_class, cv_parse_infos, cvs, outcomes, warnings,
                   global_checks, all_checks, printed>>

\* open(outpath, "w") raises: the exception leaves the loop and the method
WriteOpenFails ==
    /\ AtRecord
    /\ exc' = "IOError"
    /\ pc' = "aborted"
    /\ UNCHANGED <<disk, count, idx>>
    /\ WriteKeep

\* callback(f) or out_file.write raises after open() truncated the file
WriteRenderFails ==
    /\ AtRecord
    /\ disk' = Written(disk, fname(idx), 0)
    /\ exc' = "IOError"
    /\ pc' = "aborted"
    /\ UNCHANGED <<count, idx>>
    /\ WriteKeep

\* print("{} files written".format(count))
WriteReport ==
    /\ pc = "write"
    /\ idx > Len(all_checks)
    /\ printed' = Append(printed, count)
    /\ pc' = "done"
    /\ UNCHANGED <<disk, count, idx, exc>>
    /\ UNCHANGED <<ApiVars, root, tree, base_class, cv_parse_infos, cvs, outcomes, warnings,
                   global_checks, all_checks>>

\* ------------------------------------------------------------ specification
\* SpreadsheetHandler(spreadsheets_dir) on some tree, about to run write_yaml
\* (base_class = YamlCheck) or write_cvs (no base_class)
Init ==
    /\ root \in Roots
    /\ tree \in Trees
    /\ base_class \in {"YamlCheck", "None"}
    /\ pc = "discover"
    /\ cv_parse_infos = <<>>
    /\ idx = 0
    /\ cvs = <<>>
    /\ outcomes = <<>>
    /\ warnings = <<>>
    /\ global_checks = <<>>
    /\ all_checks = <<>>
    /\ disk = <<>>
    /\ count = 0
    /\ printed = <<>>
    /\ exc = ""
    /\ API_CALL_TIMES = <<>>
    /\ clock = 0
    /\ api_exc = ""
    /\ invoked = 0

Next ==
    \/ Discover
    \/ LoadSkipClass
    \/ LoadMissing
    \/ LoadOk
    \/ LoadNoRows
    \/ LoadParseError
    \/ LoadDone
    \/ GlobalAttrsMissing
    \/ GlobalAttrsOk
    \/ GlobalAttrsParseError
    \/ GroupAndWrap
    \/ WriteFile
    \/ WriteOpenFails
    \/ WriteRenderFails
    \/ WriteReport

Spec == Init /\ [][Next]_vars

\* ------------------------------------------------ the naming scheme on its own
\* Facet tokens the naming scheme is tried on: with and without the separator
Tokens == {"a", "b", "a_b", ""}

FacetSeqs == UNION {[1..n -> Tokens] : n \in 0..MaxFacets}

\* _write_output_files handed two AmfFile objects of any facets
InitNaming ==
    /\ root = "/srv/amf"
    /\ tree = {}
    /\ base_class \in {"YamlCheck", "None"}
    /\ pc = "write"
    /\ cv_parse_infos = <<>>
    /\ idx = 1
    /\ cvs = <<>>
    /\ outcomes = <<>>
    /\ warnings = <<>>
    /\ global_checks = <<>>
    /\ \E F \in FacetSeqs, G \in FacetSeqs :
         all_checks = <<Record("AmfFile", F, "", <<>>), Record("AmfFile", G, "", <<>>)>>
    /\ disk = <<>>
    /\ count = 0
    /\ printed = <<>>
    /\ exc = ""
    /\ API_CALL_TIMES = <<>>
    /\ clock = 0
    /\ api_exc = ""
    /\ invoked = 0

NextNaming ==
    \/ WriteFile
    \/ WriteOpenFails
    \/ WriteRenderFails
    \/ WriteReport

SpecNaming == InitNaming /\ [][NextNaming]_vars

\* ============================================================ api_call
\* download_from_drive.api_call: the decorator that keeps the calls to the
\* Sheets/Drive API under the rate limit.  Times are whole seconds.

max_requests == 100
min_time == 120

\* how long before a decorated call the caller was busy with something else
Advances == {0, 100, 121}

\* `while now - API_CALL_TIMES[0] > min_time: API_CALL_TIMES.pop(0)`.  The
\* loop condition reads element 0 on every iteration, so it raises IndexError
\* once the last element has been popped.
RECURSIVE TrimLoop(_, _)
TrimLoop(L, now) ==
    IF Len(L) = 0 THEN [raised |-> "IndexError", times |-> L]
    ELSE IF now - L[1] > min_time THEN TrimLoop(Tail(L), now)
    ELSE [raised |-> "", times |-> L]

\* `if API_CALL_TIMES:` guards the loop as a whole, not its iterations
Trimmed(L, now) ==
    IF Len(L) = 0 THEN [raised |-> "", times |-> L] ELSE TrimLoop(L, now)

\* `n = min_time - now + API_CALL_TIMES[0] + 2`
WaitTime(L, now) == min_time - now + L[1] + 2

\* a decorated call may start: no earlier one has raised, and the clock is in range
ApiCallAt(now) ==
    /\ api_exc = ""
    /\ now <= MaxClock

\* a call that finds fewer than max_requests recent calls: no wait
ApiCallDirect ==
    \E d \in Advances :
      LET now == clock + d
          T   == Trimmed(API_CALL_TIMES, now)
      IN /\ ApiCallAt(now)
         /\ T.raised = ""
         /\ Len(T.times) < max_requests
         /\ clock' = now
         /\ API_CALL_TIMES' = Append(T.times, now)
         /\ invoked' = invoked + 1
         /\ UNCHANGED <<api_exc, root, tree, base_class, pc, cv_parse_infos, idx, cvs,
                        outcomes, warnings, global_checks, all_checks, disk, count,
                        printed, exc>>

\* a call that finds max_requests recent calls: sleeps once, then goes ahead
ApiCallWaits ==
    \E d \in Advances :
      LET now == clock + d
          T   == Trimmed(API_CALL_TIMES, now)
      IN /\ ApiCallAt(now)
         /\ T.raised = ""
         /\ Len(T.times) >= max_requests
         /\ clock' = now + WaitTime(T.times, now)
         /\ API_CALL_TIMES' = Append(T.times, clock')
         /\ invoked' = invoked + 1
         /\ UNCHANGED <<api_exc, root, tree, base_class, pc, cv_parse_infos, idx, cvs,
                        outcomes, warnings, global_checks, all_checks, disk, count,
                        printed, exc>>

\* a call whose trimming loop runs off the end of the list: the exception
\* leaves the wrapper before the wrapped function is invoked
ApiCallFails ==
    \E d \in Advances :
      LET now == clock + d
          T   == Trimmed(API_CALL_TIMES, now)
      IN /\ ApiCallAt(now)
         /\ T.raised # ""
         /\ clock' = now
         /\ API_CALL_TIMES' = T.times
         /\ api_exc' = T.raised
         /\ UNCHANGED <<invoked, root, tree, base_class, pc, cv_parse_infos, idx, cvs,
                        outcomes, warnings, global_checks, all_checks, disk, count,
                        printed, exc>>

InitApi ==
    /\ root = "/srv/amf"
    /\ tree = {}
    /\ base_class = "None"
    /\ pc = "done"
    /\ cv_parse_infos = <<>>
    /\ idx = 1
    /\ cvs = <<>>
    /\ outcomes = <<>>
    /\ warnings = <<>>
    /\ global_checks = <<>>
    /\ all_checks = <<>>
    /\ disk = <<>>
    /\ count = 0
    /\ printed = <<>>
    /\ exc = ""
    /\ API_CALL_TIMES = <<>>
    /\ clock = 0
    /\ api_exc = ""
    /\ invoked = 0

NextApi ==
    \/ ApiCallDirect
    \/ ApiCallWaits
    \/ ApiCallFails

SpecApi == InitApi /\ [][NextApi]_vars

\* ==================================================================== claims
\* write_yaml is the run in progress
YamlRun == base_class = "YamlCheck"

\* write_yaml has built the collection it hands to _write_output_files
Synthesized ==
    YamlRun /\ (pc \in {"write", "done"} \/ (pc = "aborted" /\ exc = "IOError"))

\* the entries of cv_parse_infos that the per-product scan contributed
PerProductEntries ==
    {k \in 1..Len(cv_parse_infos) :
        Len(cv_parse_infos[k].facets) = 3 /\ cv_parse_infos[k].facets[1] = "product"}

\* C1: all records one write_yaml run emits together have pairwise distinct
\* output filenames, whatever sub-directories the matching per-product files
\* lie in.
C1_DistinctFilenames ==
    Synthesized =>
        \A i, j \in 1..Len(all_checks) : i # j => fname(i) # fname(j)

\* the worksheet prefix and the facet name of the two common vocabulary kinds
CommonKinds == {<<"Variables", "variable">>, <<"Dimensions", "dimension">>}

\* C2: for every root, absolute or relative, the path get_all_cvs opens for a
\* common variable/dimension entry is exactly
\* <root>/Common.xlsx/<Variables|Dimensions> - <Land|Sea|Air>.tsv, the root
\* prefix applied once.
C2_CommonPathRootOnce ==
    \A k \in 1..Len(cv_parse_infos) :
        \A kind \in CommonKinds, mode \in {"Land", "Sea", "Air"} :
            cv_parse_infos[k].facets = <<"product", "common", kind[2], Lower(mode)>>
            => full_path(cv_parse_infos[k])
               = root \o "/Common.xlsx/" \o kind[1] \o " - " \o mode \o ".tsv"

\* the lower-cased deployment modes that appear as facets
ModeFacets == {"land", "sea", "air"}

\* the product names, other than "common", with a successfully parsed record
ParsedProducts ==
    {cvs[i].facets[2] : i \in {k \in 1..Len(cvs) :
        Len(cvs[k].facets) > 2 /\ cvs[k].facets[1] = "product"}} \ {"common"}

IsWrapper(r) == r.cls = "WrapperYamlCheck"

\* the positions in all_checks of the wrappers with facets ["product", p, m]
WrappersOf(p, m) ==
    {i \in 1..Len(all_checks) :
        IsWrapper(all_checks[i]) /\ all_checks[i].facets = <<"product", p, m>>}

IsRecordOf(cv, p) == Len(cv.facets) > 2 /\ cv.facets[1] = "product" /\ cv.facets[2] = p

IsCommonOfMode(cv, m) ==
    Len(cv.facets) = 4 /\ cv.facets[1] = "product" /\ cv.facets[2] = "common" /\ cv.facets[4] = m

\* C3: for every product name other than "common" with at least one parsed
\* record and every deployment mode, write_yaml synthesizes exactly one wrapper
\* with facets ["product", <product>, <mode>] whose children are the global
\* checks, then the product's records, then the common records of that mode;
\* a mode without common records still gets its wrapper, without them; there
\* are no other wrappers.
C3_WrapperPerProductMode ==
    Synthesized =>
        /\ \A p \in ParsedProducts, m \in ModeFacets :
             /\ Cardinality(WrappersOf(p, m)) = 1
             /\ \A i \in WrappersOf(p, m) :
                  all_checks[i].children =
                      global_checks
                      \o SelectSeq(cvs, LAMBDA cv : IsRecordOf(cv, p))
                      \o SelectSeq(cvs, LAMBDA cv : IsCommonOfMode(cv, m))
        /\ Cardinality({i \in 1..Len(all_checks) : IsWrapper(all_checks[i])})
             = 3 * Cardinality(ParsedProducts)

\* C3 witness: a finished run with a parsed product and common records of the
\* land mode only: the land wrapper lists the common record, the sea and air
\* wrappers exist and do not.
C3_Witness ==
    /\ YamlRun /\ pc = "done"
    /\ ParsedProducts # {}
    /\ \E k \in 1..Len(cvs) : IsCommonOfMode(cvs[k], "land")
    /\ \A k \in 1..Len(cvs) : ~IsCommonOfMode(cvs[k], "sea") /\ ~IsCommonOfMode(cvs[k], "air")
    /\ \A p \in ParsedProducts :
         /\ \E i \in WrappersOf(p, "land") :
              \E c \in 1..Len(all_checks[i].children) :
                  IsCommonOfMode(all_checks[i].children[c], "land")
         /\ \A m \in {"sea", "air"} :
              \E i \in WrappersOf(p, m) :
                  \A c \in 1..Len(all_checks[i].children) :
                      ~IsCommonOfMode(all_checks[i].children[c], "land")

\* C4: when the global-attributes file exists and its parsing fails with a
\* CVParseError, write_yaml warns, leaves the check out and continues: the
\* run is never ended by that CVParseError.
C4_GlobalAttrsErrorTolerated ==
    YamlRun => ~(pc = "aborted" /\ exc = "CVParseError")

\* the number of "no product spreadsheets found" warnings printed so far
NoProductsWarnings == Cardinality({k \in 1..Len(warnings) : warnings[k].kind = "no_products"})

IsCommonRecord(cv) == \E m \in ModeFacets : IsCommonOfMode(cv, m)

\* C5: given zero files matching the per-product pattern, write_yaml emits only
\* the global checks (no wrapper and no other record, whatever common sources
\* are present) and records exactly one discovery-level warning.
C5_OnlyGlobalChecks ==
    (Synthesized /\ PerProductEntries = {}) =>
        /\ all_checks = global_checks
        /\ NoProductsWarnings = 1

\* C5 amended: given zero matching files, write_yaml prints exactly one "no
\* product spreadsheets found" warning, synthesizes no wrapper and emits no
\* per-product record; what it hands to the writer is the parsed common
\* variable/dimension leaf checks followed by the global checks, and a run that
\* finishes reports all of them written.
C5_NoProductsEmission ==
    (YamlRun /\ pc # "discover" /\ PerProductEntries = {}) =>
        /\ NoProductsWarnings = 1
        /\ Synthesized =>
             /\ \A i \in 1..Len(all_checks) : ~IsWrapper(all_checks[i])
             /\ \A k \in 1..Len(cvs) : IsCommonRecord(cvs[k])
             /\ all_checks = cvs \o global_checks
             /\ Len(global_checks) \in {2, 3}
        /\ pc = "done" => printed = <<Len(all_checks)>>

\* C5 witness: a finished write_yaml run on a tree with no matching per-product
\* file that emitted a common leaf check beside the global checks.
C5_Witness ==
    /\ YamlRun /\ pc = "done"
    /\ PerProductEntries = {}
    /\ \E i \in 1..Len(all_checks) : IsCommonRecord(all_checks[i])
    /\ \A i \in 1..Len(all_checks) : fname(i) \in DOMAIN disk

\* C6: every child referenced by an emitted wrapper is itself a member of the
\* collection written in the same run, and once a wrapper's file is written the
\* files of its children are on disk.
C6_ChildrenEmitted ==
    YamlRun =>
        \A i \in 1..Len(all_checks) :
            IsWrapper(all_checks[i]) =>
                \A c \in 1..Len(all_checks[i].children) :
                    LET child == all_checks[i].children[c]
                    IN  /\ \E j \in 1..Len(all_checks) : all_checks[j] = child
                        /\ (pc \in {"write", "done", "aborted"} /\ i < idx)
                             => get_filename(child.facets, Ext) \in DOMAIN disk

\* C6 witness: a finished run whose wrappers list a parsed leaf record that was
\* written beside them.
C6_Witness ==
    /\ YamlRun /\ pc = "done"
    /\ \E i \in 1..Len(all_checks) :
         /\ IsWrapper(all_checks[i])
         /\ \E c \in 1..Len(all_checks[i].children) :
              /\ all_checks[i].children[c].cls \in {"VariablesCV", "DimensionsCV"}
              /\ get_filename(all_checks[i].children[c].facets, Ext) \in DOMAIN disk

\* the positions of the loading loop's passes that came to `outcome`, in order
PassesWith(outcome) ==
    SelectSeq([k \in 1..Len(outcomes) |-> k], LAMBDA k : outcomes[k] = outcome)

\* the paths named by the parse warnings printed so far, in order
ParseWarningPaths ==
    LET w == SelectSeq(warnings, LAMBDA x : x.kind = "parse_failed")
    IN  [k \in 1..Len(w) |-> w[k].path]

\* C7: while get_all_cvs loads the discovered sources in order, a missing file
\* yields no record, DimensionsSheetNoRowsError yields no record and no parse
\* warning, any other CVParseError yields no record and exactly one warning
\* naming its path; every later source is still loaded and the records parsed
\* earlier are kept.
C7_LoadingTolerant ==
    pc # "discover" =>
        /\ Len(outcomes) <= Len(cv_parse_infos)
        /\ pc = "load" => Len(outcomes) = idx - 1
        /\ pc # "load" => Len(outcomes) = Len(cv_parse_infos)
        /\ LET ok == PassesWith("ok")
           IN  cvs = [j \in 1..Len(ok) |->
                        [cls |-> cv_parse_infos[ok[j]].cls,
                         facets |-> cv_parse_infos[ok[j]].facets,
                         src |-> PathJoin(root, cv_parse_infos[ok[j]].path),
                         children |-> <<>>]]
        /\ LET bad == PassesWith("CVParseError")
           IN  ParseWarningPaths =
                   [j \in 1..Len(bad) |-> PathJoin(root, cv_parse_infos[bad[j]].path)]

\* C7 witness: the loop has finished after a missing file, a dimensions sheet
\* without rows and a source that failed to parse, and a source after all of
\* them was loaded.
C7_Witness ==
    /\ pc \notin {"discover", "load"}
    /\ \E a, b, c, d \in 1..Len(outcomes) :
         /\ a < d /\ b < d /\ c < d
         /\ outcomes[a] = "missing"
         /\ outcomes[b] = "DimensionsSheetNoRowsError"
         /\ outcomes[c] = "CVParseError"
         /\ outcomes[d] = "ok"

\* no token of the facet sequence holds the separator character
SeparatorFree(facets) == \A k \in 1..Len(facets) : ~Contains(facets[k], facet_separator)

\* C8: for all facet sequences F and G, get_filename(ext) of a record with
\* facets F equals that of a record with facets G only if F = G (looked at
\* once both records have been written under their filenames).
C8_DistinctFacetsDistinctNames ==
    pc = "done" =>
        \A i, j \in 1..Len(all_checks) :
            fname(i) = fname(j) => all_checks[i].facets = all_checks[j].facets

\* C8 amended: for all non-empty facet sequences F and G whose tokens hold no
\* separator character, the filenames are equal exactly when F = G, and two
\* such records with different facets are written to two files.
C8_SeparatorFreeInjective ==
    \A i, j \in 1..Len(all_checks) :
        LET F == all_checks[i].facets
            G == all_checks[j].facets
        IN  (Len(F) > 0 /\ Len(G) > 0 /\ SeparatorFree(F) /\ SeparatorFree(G)) =>
                /\ (fname(i) = fname(j)) <=> (F = G)
                /\ (pc = "done" /\ F # G) => Cardinality(DOMAIN disk) = 2

\* C8 witness: two records with different separator-free facet sequences of two
\* tokens each have been written, to two files.
C8_Witness ==
    /\ pc = "done"
    /\ Len(all_checks) = 2
    /\ Len(all_checks[1].facets) = 2 /\ Len(all_checks[2].facets) = 2
    /\ SeparatorFree(all_checks[1].facets) /\ SeparatorFree(all_checks[2].facets)
    /\ all_checks[1].facets # all_checks[2].facets
    /\ Cardinality(DOMAIN disk) = 2

\* the writing loop is at work, has finished, or was ended by a failed write
InWriter == pc \in {"write", "done"} \/ (pc = "aborted" /\ exc = "IOError")

\* C9: _write_output_files writes the records in collection order, one write
\* per record: without a failure the reported count is the number of records;
\* when the write of the k-th record fails the failure propagates, the files
\* of the records before k are on disk, no record after k is written and no
\* count is reported.
C9_WriterInOrder ==
    InWriter =>
        /\ \A i \in 1..(idx - 1) : fname(i) \in DOMAIN disk
        /\ \A n \in DOMAIN disk :
             /\ disk[n] < idx
             /\ disk[n] # 0 =>
                  /\ fname(disk[n]) = n
                  /\ \A i \in (disk[n] + 1)..(idx - 1) : fname(i) # n
        /\ pc = "write" => count = idx - 1 /\ printed = <<>> /\ exc = ""
        /\ pc = "done" =>
             /\ exc = ""
             /\ count = Len(all_checks)
             /\ printed = <<Len(all_checks)>>
        /\ pc = "aborted" =>
             /\ idx \in 1..Len(all_checks)
             /\ count = idx - 1
             /\ printed = <<>>

\* C9 witness: the write of a record that has records before and after it
\* failed.
C9_Witness ==
    /\ pc = "aborted" /\ exc = "IOError"
    /\ idx > 1 /\ idx < Len(all_checks)
    /\ \A i \in 1..(idx - 1) : fname(i) \in DOMAIN disk

\* the positions in cvs of the records parsed from per-product sheets
PerProductRecords ==
    {k \in 1..Len(cvs) : Len(cvs[k].facets) = 3 /\ cvs[k].facets[1] = "product"}

\* the positions in all_checks of the wrappers that list record r as a child
ListingWrappers(r) ==
    {i \in 1..Len(all_checks) :
        /\ IsWrapper(all_checks[i])
        /\ \E c \in 1..Len(all_checks[i].children) : all_checks[i].children[c] = r}

\* the three wrappers of product p
OwnWrappers(p) == UNION {WrappersOf(p, m) : m \in ModeFacets}

\* C10: for every product name the scan pattern accepts, "common" included,
\* each parsed per-product record is a child of exactly the three wrappers of
\* its own product and of no other wrapper.
C10_EveryProductWrapped ==
    Synthesized =>
        \A k \in PerProductRecords :
            /\ Cardinality(ListingWrappers(cvs[k])) = 3
            /\ ListingWrappers(cvs[k]) = OwnWrappers(cvs[k].facets[2])

\* C10 amended: for every product name the scan pattern accepts other than
\* "common", each parsed per-product record is a child of exactly the three
\* wrappers of its own product and of no other wrapper; a record of a product
\* directory named "common" is emitted but is a child of no wrapper.
C10_NamedProductWrapped ==
    Synthesized =>
        \A k \in PerProductRecords :
            /\ \E i \in 1..Len(all_checks) : all_checks[i] = cvs[k]
            /\ IF cvs[k].facets[2] = "common"
               THEN ListingWrappers(cvs[k]) = {}
               ELSE /\ Cardinality(ListingWrappers(cvs[k])) = 3
                    /\ ListingWrappers(cvs[k]) = OwnWrappers(cvs[k].facets[2])

\* C10 witness: a finished run with parsed records of two products, each listed
\* by the wrappers of its own product.
C10_Witness ==
    /\ YamlRun /\ pc = "done"
    /\ \E a, b \in PerProductRecords :
         /\ cvs[a].facets[2] # cvs[b].facets[2]
         /\ cvs[a].facets[2] # "common" /\ cvs[b].facets[2] # "common"
         /\ Cardinality(ListingWrappers(cvs[a])) = 3
         /\ Cardinality(ListingWrappers(cvs[b])) = 3

\* ---------------------------------------------------------------------- C11
\* at most max_requests recorded calls fall within any window of min_time
\* seconds (the record is in time order, so max_requests + 1 consecutive
\* entries must span more than min_time)
RateLimited ==
    \A i \in 1..(Len(API_CALL_TIMES) - max_requests) :
        API_CALL_TIMES[i + max_requests] - API_CALL_TIMES[i] > min_time

\* C11: for decorated calls made at non-decreasing times the wrapper never
\* raises (trimming completes even when every recorded call is older than
\* min_time seconds), every call invokes the wrapped function and appends its
\* time, and at most max_requests recorded calls fall within any window of
\* min_time seconds.
C11_WrapperNeverFails ==
    /\ api_exc = ""
    /\ RateLimited

====
